---- MODULE Spec2Model ----
(***************************************************************************)
(* Model of simgsr/vi_project:                                             *)
(*   yf_pull_iv_data.py  - concurrent batch pipeline (one thread per       *)
(*                         ticker, shared results dict / failed list)      *)
(*   split_csv.py        - interactive batch splitter                      *)
(* Ticker strings are sequences of one-character strings.                  *)
(***************************************************************************)
EXTENDS Integers, Sequences, FiniteSets, TLC

\* ------------------------------------------------------------------ bounds
MaxTickers == 2
MaxSplitLen == 10
MaxTickerLen == 3

\* ------------------------------------------------------------- constants

SUPPORTED_SUFFIXES_NoEmpty ==
  << <<".","H","K">>, <<".","S","S">>, <<".","S","Z">>, <<".","K","S">>,
     <<".","T">>, <<".","L">>, <<".","A","X">>, <<".","T","O">>,
     <<".","V">>, <<".","S","I">>, <<".","N","Z">>, <<".","M","I">>,
     <<".","P","A">>, <<".","F">>, <<".","D","E">>, <<".","S","T">>,
     <<".","H","E">>, <<".","S","W">>, <<".","M","C">> >>

SUPPORTED_SUFFIXES ==
  << <<".","H","K">>, <<".","S","S">>, <<".","S","Z">>, <<".","K","S">>,
     <<".","T">>, <<".","L">>, <<".","A","X">>, <<".","T","O">>,
     <<".","V">>, <<".","S","I">>, <<".","N","Z">>, <<".","M","I">>,
     <<".","P","A">>, <<".","F">>, <<".","D","E">>, <<".","S","T">>,
     <<".","H","E">>, <<".","S","W">>, <<".","M","C">>, <<>> >>

\* str.endswith
endswith(s, suffix) ==
  /\ Len(suffix) <= Len(s)
  /\ SubSeq(s, Len(s) - Len(suffix) + 1, Len(s)) = suffix

is_supported_ticker(ticker) ==
  \E i \in 1..Len(SUPPORTED_SUFFIXES) : endswith(ticker, SUPPORTED_SUFFIXES[i])

\* ------------------------------------------------------ values and dicts
\* A Python value: None, or a float written as the fraction n/d (d > 0) and
\* standing for the double nearest to n/d (a quotient of two doubles need
\* not be the nearest: it carries the side of n/d it lies on), or one of
\* the floats inf, -inf and nan (float64 values, as a statement cell or a
\* numpy division gives).
None == [t |-> "None"]
Num(n) == [t |-> "num", n |-> n, d |-> 1]
Frac(n, d) == [t |-> "num", n |-> n, d |-> d]
\* a Python int/float (value of the info dict, cell of an object-dtype frame),
\* as opposed to the numpy float64 cell of a statement
PyNum(n) == [t |-> "pynum", n |-> n, d |-> 1]
\* isinstance(x, (int, float)): true of nan and of the infinities too
IsNumber(x) == x.t \in {"num", "pynum", "inf", "-inf", "nan"}
IsFinite(x) == x.t \in {"num", "pynum"}
Inf == [t |-> "inf"]
NegInf == [t |-> "-inf"]
NaN == [t |-> "nan"]
Raise == [t |-> "raise"]
\* a DataFrame with columns Metric, Value: its rows in order
Frame(rows) == [t |-> "frame", rows |-> rows]

EmptyDict == [k \in {} |-> None]

\* dict.get(key, None)
get(d, key) == IF key \in DOMAIN d THEN d[key] ELSE None

\* ---------------------------------------------------- provider responses
\* Outcome of the quote-info lookup made by validate_ticker:
\*   raises - yf.Ticker(..).info raises;  info - the dict returned otherwise.
Lookups ==
  { [raises |-> TRUE,  info |-> EmptyDict],
    [raises |-> FALSE, info |-> EmptyDict],
    [raises |-> FALSE, info |-> [regularMarketPrice |-> None]],
    [raises |-> FALSE, info |-> [regularMarketPrice |-> Num(150)]] }

\* what the lookup gave, for the record kept of each call
lookup_kind(lookup) ==
  IF lookup.raises THEN "raises"
  ELSE IF "regularMarketPrice" \notin DOMAIN lookup.info THEN "absent"
  ELSE IF lookup.info["regularMarketPrice"] = None THEN "null"
  ELSE "price"

\* validate_ticker: "True" / "False" returned, "raise" when an exception
\* leaves the function (log() failing inside the except handler).
validate_ticker(lookup, logOk) ==
  IF lookup.raises
    THEN (IF logOk THEN "False" ELSE "raise")
    ELSE IF get(lookup.info, "regularMarketPrice") = None THEN "False" ELSE "True"

\* --------------------------------------------------- fetch_financial_data
\* A statement (DataFrame) is a dict from row label to the row's period
\* values, most recent first.  stmt.loc[label].iloc[0] if label in stmt.index
\* else default; .iloc[0] on a row without columns raises IndexError.
row0(stmt, label, default) ==
  IF label \in DOMAIN stmt
    THEN (IF Len(stmt[label]) = 0 THEN Raise ELSE stmt[label][1])
    ELSE default

\* number of bits of q >= 0
RECURSIVE BitLength(_)
BitLength(q) == IF q = 0 THEN 0 ELSE 1 + BitLength(q \div 2)

\* The double nearest to a fraction, compared with the fraction.  The binary
\* expansion is produced one bit at a time by long division: r/d is what is
\* left after the bits produced so far, k bits of the 53 of the significand
\* are still to come, last is the bit produced last.  Round to nearest, ties
\* to even: 1 when the double is above the fraction, -1 when below, 0 when
\* the fraction is a double.
RECURSIVE float_tail(_, _, _, _)
float_tail(r, d, k, last) ==
  IF r = 0 THEN 0
  ELSE IF k > 0 THEN float_tail((2 * r) % d, d, k - 1, (2 * r) \div d)
  ELSE IF (2 * r) \div d = 0 THEN 0 - 1
  ELSE IF (2 * r) % d # 0 THEN 1
  ELSE IF last = 1 THEN 1 ELSE 0 - 1

\* the same for a fraction below 1: the zero bits before the first one bit
\* are not part of the significand
RECURSIVE float_lead(_, _)
float_lead(r, d) ==
  IF (2 * r) \div d = 0 THEN float_lead(2 * r, d)
  ELSE float_tail((2 * r) % d, d, 52, 1)

\* sign of float(n/d) - n/d, for d > 0
float_error_sign(n, d) ==
  LET m == IF n < 0 THEN 0 - n ELSE n
      q == m \div d
      r == m % d
      e == IF r = 0 THEN 0
           ELSE IF q = 0 THEN float_lead(r, d)
           ELSE float_tail(r, d, 53 - BitLength(q), q % 2)
  IN  IF n < 0 THEN 0 - e ELSE e

\* ------------------------------------------------- division of doubles
\* Integers of up to 60 bits as four limbs of 15 bits, lowest first.
big_of_int(q) == <<q % 32768, (q \div 32768) % 32768, q \div 1073741824, 0>>

\* 2 * x + bit
big_dbl(x, bit) ==
  LET t1 == 2 * x[1] + bit
      t2 == 2 * x[2] + t1 \div 32768
      t3 == 2 * x[3] + t2 \div 32768
      t4 == 2 * x[4] + t3 \div 32768
  IN  <<t1 % 32768, t2 % 32768, t3 % 32768, t4>>

big_inc(x) ==
  LET t1 == x[1] + 1
      t2 == x[2] + t1 \div 32768
      t3 == x[3] + t2 \div 32768
      t4 == x[4] + t3 \div 32768
  IN  <<t1 % 32768, t2 % 32768, t3 % 32768, t4>>

big_geq(x, y) ==
  IF x[4] # y[4] THEN x[4] > y[4]
  ELSE IF x[3] # y[3] THEN x[3] > y[3]
  ELSE IF x[2] # y[2] THEN x[2] > y[2]
  ELSE x[1] >= y[1]

\* x - y for x >= y
big_sub(x, y) ==
  LET d1 == x[1] - y[1]
      b1 == IF d1 < 0 THEN 1 ELSE 0
      d2 == x[2] - y[2] - b1
      b2 == IF d2 < 0 THEN 1 ELSE 0
      d3 == x[3] - y[3] - b2
      b3 == IF d3 < 0 THEN 1 ELSE 0
  IN  <<d1 + 32768 * b1, d2 + 32768 * b2, d3 + 32768 * b3, x[4] - y[4] - b3>>

RECURSIVE Pow2(_)
Pow2(k) == IF k = 0 THEN 1 ELSE 2 * Pow2(k - 1)

\* k more bits of r/d shifted into m, then round to nearest, ties to even
\* (throughout, r < d and m < 2^53)
RECURSIVE sig_bits(_, _, _, _)
sig_bits(m, r, d, k) ==
  IF k > 0 /\ r < d /\ m[4] < 256 THEN sig_bits(big_dbl(m, (2 * r) \div d), (2 * r) % d, d, k - 1)
  ELSE IF (2 * r) \div d = 1 /\ ((2 * r) % d # 0 \/ m[1] % 2 = 1)
    THEN big_inc(m)
    ELSE m

\* zero bits of r/d (0 < r < d) between the point and its first one bit
RECURSIVE lead_zeros(_, _)
lead_zeros(r, d) == IF 2 * r >= d THEN 0 ELSE 1 + lead_zeros(2 * r, d)

\* The double nearest to n/d (n, d > 0) as m * 2^(k - 52): m its 53-bit
\* significand, 2^52 <= m < 2^53, and k the position of its leading bit.
float_sig(n, d) ==
  LET q == n \div d
      r == n % d
      z == lead_zeros(r, d)
      m == IF q > 0
             THEN sig_bits(big_of_int(q), r, d, 53 - BitLength(q))
             ELSE sig_bits(big_of_int(1), 2 * r * Pow2(z) - d, d, 52)
      k == IF q > 0 THEN BitLength(q) - 1 ELSE 0 - (z + 1)
  IN  IF m[4] >= 256 THEN [m |-> <<0, 0, 0, 128>>, k |-> k + 1]
                     ELSE [m |-> m, k |-> k]

\* The quotient ma/mb of two significands is rounded to 53 bits and compared
\* with the fraction xn/xd, both read one bit at a time from the same
\* position down.  rem: what is left of ma/mb; p: position of the next bit
\* of xn/xd, xq its integer part and xr what is left of its fraction; diff:
\* (bits of xn/xd so far) - (bits of the quotient so far), kept within
\* -2 .. 2; k: bits of the significand still to come; last: its last bit.
\* (throughout, xr < xd, diff <= 2 and rem <= mb)
\* Result: 1 when the rounded quotient is above xn/xd, -1 below, 0 equal.
RECURSIVE quotient_side(_, _, _, _, _, _, _, _, _)
quotient_side(rem, mb, p, xq, xr, xd, diff, k, last) ==
  LET r2 == big_dbl(rem, 0)
      bit == IF big_geq(r2, mb) THEN 1 ELSE 0
      rest == IF bit = 1 THEN big_sub(r2, mb) ELSE r2
      xbit == IF p >= 0 THEN (xq \div Pow2(p)) % 2 ELSE (2 * xr) \div xd
      xrest == IF p >= 0 THEN xr ELSE (2 * xr) % xd
      df == 2 * diff + xbit - bit
      up == bit = 1 /\ (rest # <<0, 0, 0, 0>> \/ last = 1)
      below == (p >= 0 /\ xq % Pow2(p + 1) # 0) \/ xr # 0
  IN  IF k > 0 /\ xr < xd /\ diff <= 2 /\ big_geq(mb, rem)
        THEN quotient_side(rest, mb, p - 1, xq, xrest, xd,
                           IF df > 2 THEN 2 ELSE IF df < 0 - 2 THEN 0 - 2 ELSE df,
                           k - 1, bit)
      ELSE IF up
        THEN (IF diff <= 0 THEN 1
              ELSE IF diff = 1 /\ ~below THEN 0 ELSE 0 - 1)
      ELSE IF diff > 0 THEN 0 - 1
      ELSE IF diff < 0 THEN 1
      ELSE IF below THEN 0 - 1 ELSE 0

\* float(an/ad) / float(bn/bd) for bn # 0 and ad, bd > 0: the double
\* quotient of the two doubles, written as the fraction it is nearest to or
\* next to, (an * bd) / (ad * bn), with the side of it the double lies on.
\* When both fractions are doubles the quotient is the double nearest to
\* the fraction, the division being correctly rounded.
float_div(an, ad, bn, bd) ==
  LET pa == IF an < 0 THEN 0 - an ELSE an
      pb == IF bn < 0 THEN 0 - bn ELSE bn
      neg == (an < 0) # (bn < 0)
      a == float_sig(pa, ad)
      b == float_sig(pb, bd)
      s == a.k - b.k
      xn == pa * bd
      xd == ad * pb
      xq == xn \div xd
      xr == xn % xd
      i == IF big_geq(a.m, b.m) THEN 1 ELSE 0
      rem == IF i = 1 THEN big_sub(a.m, b.m) ELSE a.m
      top == IF s >= 0 THEN xq \div Pow2(s)
             ELSE (2 * xr * Pow2(0 - s - 1)) \div xd
      xr0 == IF s >= 0 THEN xr ELSE (2 * xr * Pow2(0 - s - 1)) % xd
      exact == float_error_sign(pa, ad) = 0 /\ float_error_sign(pb, bd) = 0
      side == IF exact
                THEN float_error_sign(xn, xd)
                ELSE quotient_side(rem, b.m, s - 1, xq, xr0, xd,
                                   IF top - i > 2 THEN 2 ELSE top - i,
                                   IF i = 1 THEN 52 ELSE 53, i)
  IN  IF an = 0 THEN Frac(0, 1)
      ELSE [t |-> "num", n |-> IF neg THEN 0 - xn ELSE xn, d |-> xd,
            side |-> IF neg THEN 0 - side ELSE side]

\* the division with its operands exchanged
truediv_Swapped(a, b) ==
  IF ~IsNumber(b) \/ ~IsNumber(a) THEN Raise
  ELSE IF b = NaN \/ a = NaN THEN NaN
  ELSE IF ~IsFinite(a)
    THEN (IF IsFinite(b) THEN Frac(0, 1) ELSE NaN)
  ELSE IF a.n = 0
    THEN (IF b.t = "pynum" /\ a.t = "pynum" THEN Raise
          ELSE IF ~IsFinite(b) THEN b
          ELSE IF b.n = 0 THEN NaN
          ELSE IF b.n > 0 THEN Inf ELSE NegInf)
  ELSE IF ~IsFinite(b)
    THEN (IF (b = Inf) = (a.n > 0) THEN Inf ELSE NegInf)
  ELSE float_div(b.n, b.d, a.n, a.d)

\* total_equity / shares_outstanding_stmt, an IEEE-754 division of the two
\* doubles.  An operand that is no number (None) raises TypeError.  When an
\* operand is a DataFrame cell (numpy float64) a zero divisor yields inf,
\* -inf or nan with a warning; when both are Python numbers it raises
\* ZeroDivisionError.
truediv(a, b) ==
  IF ~IsNumber(a) \/ ~IsNumber(b) THEN Raise
  ELSE IF a = NaN \/ b = NaN THEN NaN
  ELSE IF ~IsFinite(b)
    THEN (IF IsFinite(a) THEN Frac(0, 1) ELSE NaN)
  ELSE IF b.n = 0
    THEN (IF a.t = "pynum" /\ b.t = "pynum" THEN Raise
          ELSE IF ~IsFinite(a) THEN a
          ELSE IF a.n = 0 THEN NaN
          ELSE IF a.n > 0 THEN Inf ELSE NegInf)
  ELSE IF ~IsFinite(a)
    THEN (IF (a = Inf) = (b.n > 0) THEN Inf ELSE NegInf)
  ELSE float_div(a.n, a.d, b.n, b.d)

\* round-half-even of n/d (d > 0) to an integer
RoundHalfEven(n, d) ==
  LET q == n \div d
      r == n % d
  IN  IF 2 * r < d THEN q
      ELSE IF 2 * r > d THEN q + 1
      ELSE IF q % 2 = 0 THEN q ELSE q + 1

\* round(x, 2) of a double, in hundredths: the double is next to n/d, on
\* the side e of it (0: it is n/d).  The exact value of the double is
\* rounded, so n/d half-way between two hundredths goes to the side its
\* double lies on, and half-to-even only when the double is n/d.
round_hundredths(n, d, e) ==
  LET q == (100 * n) \div d
      r == (100 * n) % d
  IN  IF 2 * r = d /\ e # 0
        THEN (IF e > 0 THEN q + 1 ELSE q)
        ELSE RoundHalfEven(100 * n, d)

\* on which side of x.n / x.d the double x lies: recorded for a quotient,
\* the nearest double otherwise
side_of(x) ==
  IF "side" \in DOMAIN x THEN x.side ELSE float_error_sign(x.n, x.d)

\* lambda x: round(x, 2) if isinstance(x, (int, float)) else x
\* (round leaves nan and the infinities as they are)
round2(x) ==
  IF IsNumber(x)
    THEN (IF IsFinite(x)
            THEN Frac(round_hundredths(x.n, x.d, side_of(x)), 100)
            ELSE x)
    ELSE x

bvps_of(total_equity, shares_outstanding_stmt) ==
  IF total_equity # None /\ shares_outstanding_stmt # None
    THEN truediv(total_equity, shares_outstanding_stmt)
    ELSE None

\* hist['Close'].iloc[-1]: IndexError on an empty history
last_close(hist) == IF Len(hist) = 0 THEN Raise ELSE hist[Len(hist)]

\* pd.DataFrame(list(summary_data.items()), columns=['Metric', 'Value']):
\* when some value is a number the Value column is float64, so every None
\* becomes nan and every int a float; with no number it is an object column
\* and the values stay as they are.
DataFrame(items) ==
  LET numeric == \E i \in 1..Len(items) : IsNumber(items[i][2])
      cell(v) == IF ~numeric THEN v
                 ELSE IF v = None THEN NaN
                 ELSE IF v.t = "pynum" THEN [v EXCEPT !.t = "num"]
                 ELSE v
  IN  Frame([i \in 1..Len(items) |-> <<items[i][1], cell(items[i][2])>>])

\* df['Value'] = df['Value'].apply(lambda x: round(x, 2) if ... else x)
apply_round2(df) ==
  Frame([i \in 1..Len(df.rows) |-> <<df.rows[i][1], round2(df.rows[i][2])>>])

\* rows without the metrics whose value is None
RECURSIVE drop_absent(_)
drop_absent(rows) ==
  IF Len(rows) = 0 THEN << >>
  ELSE IF rows[1][2] = None THEN drop_absent(Tail(rows))
  ELSE << rows[1] >> \o drop_absent(Tail(rows))

\* The summary_data dict of the batch variant, before rounding.
\* (the first key is written "Beta (..)" with a non-ASCII beta in the source)
summary_data(r) ==
  LET info == r.info
      shares_outstanding == get(info, "sharesOutstanding")
      shares_outstanding_stmt == row0(r.balance_sheet, "Share Issued", shares_outstanding)
      total_equity == row0(r.balance_sheet, "Stockholders Equity", None)
  IN  << <<"Beta", get(info, "beta")>>,
         <<"Current Price", get(info, "currentPrice")>>,
         <<"Market Cap", get(info, "marketCap")>>,
         <<"P/E Ratio", get(info, "trailingPE")>>,
         <<"Forward P/E", get(info, "forwardPE")>>,
         <<"Dividend Rate", get(info, "dividendRate")>>,
         <<"Dividend Yield", get(info, "dividendYield")>>,
         <<"ROE", get(info, "returnOnEquity")>>,
         <<"Free Cash Flow (FCF)", row0(r.cashflow, "Free Cash Flow", None)>>,
         <<"Net Income", row0(r.financials, "Net Income", None)>>,
         <<"Shares Outstanding", shares_outstanding_stmt>>,
         <<"EPS", row0(r.financials, "Basic EPS", None)>>,
         <<"Total Debt", row0(r.balance_sheet, "Total Debt", None)>>,
         <<"Total Equity", total_equity>>,
         <<"BVPS", IF total_equity = Raise \/ shares_outstanding_stmt = Raise
                     THEN Raise
                     ELSE bvps_of(total_equity, shares_outstanding_stmt)>> >>

\* The summary_data dict of yf_pull_iv_data_lai.py: the same rows and the
\* last close of the history
summary_data_lai(r) ==
  summary_data(r) \o << <<"Last 3 Years Close Price", last_close(r.hist)>> >>

\* fetch_financial_data that builds the frame from the present metrics only
fetch_financial_data_DropAbsent(r, logOk) ==
  LET sd == summary_data(r)
      raised == \/ r.raises
                \/ \E i \in 1..Len(sd) : sd[i][2] = Raise
                \/ last_close(r.hist) = Raise
      kept == drop_absent(sd)
  IN  IF raised
        THEN (IF logOk THEN None ELSE Raise)
        ELSE apply_round2(DataFrame(kept))

\* fetch_financial_data of yf_pull_iv_data.py.  Result: the DataFrame (its
\* <<Metric, Value>> rows), None, or Raise when log() fails
\* inside the except handler and the exception leaves the function.
fetch_financial_data(r, logOk) ==
  LET sd == summary_data(r)
      raised == \/ r.raises
                \/ \E i \in 1..Len(sd) : sd[i][2] = Raise
                \/ last_close(r.hist) = Raise
  IN  IF raised
        THEN (IF logOk THEN None ELSE Raise)
        ELSE apply_round2(DataFrame(sd))

\* fetch_financial_data of yf_pull_iv_data_lai.py
fetch_financial_data_lai(r, logOk) ==
  LET sd == summary_data_lai(r)
      raised == \/ r.raises
                \/ \E i \in 1..Len(sd) : sd[i][2] = Raise
  IN  IF raised
        THEN (IF logOk THEN None ELSE Raise)
        ELSE apply_round2(DataFrame(sd))

\* DataFrame.empty
empty(df) == Len(df.rows) = 0

\* Provider responses used by the batch workers: complete, a provider call
\* raising, and an empty price history.
FullResponse ==
  [raises |-> FALSE,
   info |-> [beta |-> Frac(123456, 100000), currentPrice |-> Num(150),
             sharesOutstanding |-> Num(100)],
   financials |-> [x \in {"Net Income"} |-> <<Num(50)>>],
   balance_sheet |-> [x \in {"Stockholders Equity", "Share Issued"} |->
                        IF x = "Share Issued" THEN <<Num(100)>> ELSE <<Num(1000)>>],
   cashflow |-> [x \in {"Free Cash Flow"} |-> <<Num(7)>>],
   hist |-> <<Num(148), Num(149)>>]

BatchResponses ==
  { FullResponse,
    [FullResponse EXCEPT !.raises = TRUE],
    [FullResponse EXCEPT !.hist = << >>] }

\* ------------------------------------------------- batch pipeline: state
AAPL == <<"A","A","P","L">>
HK0700 == <<"0","7","0","0",".","H","K">>
Tickers == {AAPL, HK0700}

RECURSIVE SeqsUpTo(_, _)
SeqsUpTo(S, n) ==
  IF n = 0 THEN { << >> }
  ELSE LET prev == SeqsUpTo(S, n - 1)
       IN  prev \cup { Append(q, x) : q \in { p \in prev : Len(p) = n - 1 }, x \in S }

TickerLists == SeqsUpTo(Tickers, MaxTickers)

Workers == 1..MaxTickers
Free == 0

VARIABLES
  d_pc,        \* main(): "input", "launch", "join", "summary", "ask_export",
               \*         "export", "done", "returned"
  tickers,     \* main.tickers
  started,     \* number of threads started by the launch loop
  joined,      \* number of threads joined by the join loop
  printed,     \* what the summary printed: [nres, nfailed], or None before
  exp_i,       \* number of results entries exported so far
  outdir,      \* whether OUTPUT_DIR exists
  csv_files,   \* tickers whose <ticker>_financials.csv has been written
  lock,        \* the global threading.Lock: Free or the holding worker
  results,     \* main.results: dict in insertion order, sequence of [k, v]
  failed,      \* main.failed
  w_pc,        \* per worker: position inside process_ticker
  calls,       \* per worker: stages entered so far (history)
  vres,        \* per worker: [lookup, out] of its validate_ticker call
               \*             (out = "none" before the call)
  fdata,       \* per worker: local financial_data
  reason,      \* per worker: outcome reached ("none" before)
  sp_pc, sp_tickers, tickers_per_file, sp_i, sp_files, sp_rejected,
  cl_pc, cl_ticker, cl_result,
  d_status,    \* exit status of the batch script ("running" until it ends)
  sp_status,   \* exit status of split_csv.py
  fe_pc,       \* one call of fetch_financial_data: "idle", "call", "returned"
  fe_variant,  \* "batch" (yf_pull_iv_data.py) or "lai" (yf_pull_iv_data_lai.py)
  fe_resp,     \* what the provider gives to that call
  fe_logOk,    \* whether log() can append to LOG_FILE
  fe_out,      \* what the call gave: a frame, None or Raise
  la_pc,       \* yf_pull_iv_data_lai.main(): "idle", "args", "fetch", "print",
               \*                              "export", "exited"
  la_argv,     \* sys.argv[1:]
  la_fd,       \* main.financial_data
  la_outdir,   \* whether OUTPUT_DIR exists
  la_write,    \* to_csv of export_to_csv: "none", "written", "nodir"
  la_status    \* exit status of the script ("running" until it ends)

batchVars == <<d_pc, tickers, started, joined, printed, exp_i, outdir, csv_files,
               lock, results, failed, w_pc, calls, vres, fdata, reason, d_status>>
splitVars == <<sp_pc, sp_tickers, tickers_per_file, sp_i, sp_files, sp_rejected,
               sp_status>>
classVars == <<cl_pc, cl_ticker, cl_result>>
fetchVars == <<fe_pc, fe_variant, fe_resp, fe_logOk, fe_out>>
laiVars == <<la_pc, la_argv, la_fd, la_outdir, la_write, la_status>>
vars == <<batchVars, splitVars, classVars, fetchVars, laiVars>>

\* dict helpers (insertion-ordered dict as a sequence of [k, v])
keys(d) == { d[i].k : i \in 1..Len(d) }
dict_set(d, key, val) ==
  IF key \in keys(d)
    THEN [i \in 1..Len(d) |-> IF d[i].k = key THEN [k |-> key, v |-> val] ELSE d[i]]
    ELSE Append(d, [k |-> key, v |-> val])
elems(q) == { q[i] : i \in 1..Len(q) }

Terminated == {"done", "crashed"}

BatchInit ==
  /\ d_pc = "input"
  /\ tickers = << >>
  /\ started = 0
  /\ joined = 0
  /\ printed = None
  /\ exp_i = 0
  /\ outdir \in BOOLEAN
  /\ csv_files = {}
  /\ lock = Free
  /\ results = << >>
  /\ failed = << >>
  /\ w_pc = [w \in Workers |-> "idle"]
  /\ calls = [w \in Workers |-> << >>]
  /\ vres = [w \in Workers |-> [lookup |-> "none", out |-> "none"]]
  /\ fdata = [w \in Workers |-> None]
  /\ reason = [w \in Workers |-> "none"]
  /\ d_status = "running"

\* ----------------------------------------------- process_ticker (worker w)
wUnch(w) == UNCHANGED <<d_pc, tickers, started, joined, printed, exp_i, outdir,
                        csv_files, d_status, splitVars, classVars, fetchVars,
                        laiVars>>

\* if not is_supported_ticker(ticker): ...
Classify(w) ==
  /\ w_pc[w] = "classify"
  /\ calls' = [calls EXCEPT ![w] = Append(@, "classify")]
  /\ IF is_supported_ticker(tickers[w])
       THEN /\ w_pc' = [w_pc EXCEPT ![w] = "validate"]
            /\ UNCHANGED reason
       ELSE /\ w_pc' = [w_pc EXCEPT ![w] = "announce"]
            /\ reason' = [reason EXCEPT ![w] = "REJECTED"]
  /\ UNCHANGED <<lock, results, failed, vres, fdata>>
  /\ wUnch(w)

\* Validate without the early return: goes on to fetch whatever was returned
Validate_NoShortCircuit(w) ==
  /\ w_pc[w] = "validate"
  /\ \E lookup \in Lookups, logOk \in BOOLEAN :
       LET v == validate_ticker(lookup, logOk) IN
       /\ vres' = [vres EXCEPT ![w] = [lookup |-> lookup_kind(lookup), out |-> v]]
       /\ calls' = [calls EXCEPT ![w] = Append(@, "validate")]
       /\ w_pc' = [w_pc EXCEPT ![w] = IF v = "raise" THEN "crashed" ELSE "fetch"]
       /\ reason' = [reason EXCEPT ![w] = IF v = "raise" THEN "CRASHED" ELSE @]
  /\ UNCHANGED <<lock, results, failed, fdata>>
  /\ wUnch(w)

\* if not validate_ticker(ticker): ...
Validate(w) ==
  /\ w_pc[w] = "validate"
  /\ \E lookup \in Lookups, logOk \in BOOLEAN :
       LET v == validate_ticker(lookup, logOk) IN
       /\ vres' = [vres EXCEPT ![w] = [lookup |-> lookup_kind(lookup), out |-> v]]
       /\ calls' = [calls EXCEPT ![w] = Append(@, "validate")]
       /\ w_pc' = [w_pc EXCEPT ![w] =
                     IF v = "raise" THEN "crashed"
                     ELSE IF v = "True" THEN "fetch" ELSE "announce"]
       /\ reason' = [reason EXCEPT ![w] =
                     IF v = "raise" THEN "CRASHED"
                     ELSE IF v = "True" THEN @ ELSE "INVALID"]
  /\ UNCHANGED <<lock, results, failed, fdata>>
  /\ wUnch(w)

\* financial_data = fetch_financial_data(ticker); None / empty checks
Fetch(w) ==
  /\ w_pc[w] = "fetch"
  /\ \E r \in BatchResponses, logOk \in BOOLEAN :
     \E fd \in {fetch_financial_data(r, logOk)} :
       /\ calls' = [calls EXCEPT ![w] = Append(@, "fetch")]
       /\ IF fd = Raise
            THEN /\ w_pc' = [w_pc EXCEPT ![w] = "crashed"]
                 /\ reason' = [reason EXCEPT ![w] = "CRASHED"]
                 /\ UNCHANGED fdata
            ELSE /\ fdata' = [fdata EXCEPT ![w] = fd]
                 /\ IF fd = None
                      THEN /\ w_pc' = [w_pc EXCEPT ![w] = "announce"]
                           /\ reason' = [reason EXCEPT ![w] = "FETCH_FAILED"]
                      ELSE IF empty(fd)
                        THEN /\ w_pc' = [w_pc EXCEPT ![w] = "announce"]
                             /\ reason' = [reason EXCEPT ![w] = "EMPTY"]
                        ELSE /\ w_pc' = [w_pc EXCEPT ![w] = "acq_ok"]
                             /\ UNCHANGED reason
  /\ UNCHANGED <<lock, results, failed, vres>>
  /\ wUnch(w)

\* print(msg); log(msg) on a failure branch; either may raise, and nothing
\* in process_ticker catches it: the thread ends with the exception.
Announce(w) ==
  /\ w_pc[w] = "announce"
  /\ \E ok \in BOOLEAN :
       IF ok
         THEN /\ w_pc' = [w_pc EXCEPT ![w] = "acq_fail"]
              /\ UNCHANGED reason
         ELSE /\ w_pc' = [w_pc EXCEPT ![w] = "crashed"]
              /\ reason' = [reason EXCEPT ![w] = "CRASHED"]
  /\ UNCHANGED <<lock, results, failed, calls, vres, fdata>>
  /\ wUnch(w)

\* Acquire that does not wait for the lock to be free
Acquire_NoWait(w) ==
  /\ w_pc[w] \in {"acq_fail", "acq_ok"}
  /\ lock' = w
  /\ w_pc' = [w_pc EXCEPT ![w] = IF @ = "acq_fail" THEN "cs_fail" ELSE "cs_ok"]
  /\ UNCHANGED <<results, failed, calls, vres, fdata, reason>>
  /\ wUnch(w)

\* with lock:  (Lock.acquire blocks until the lock is free)
Acquire(w) ==
  /\ w_pc[w] \in {"acq_fail", "acq_ok"}
  /\ lock = Free
  /\ lock' = w
  /\ w_pc' = [w_pc EXCEPT ![w] = IF @ = "acq_fail" THEN "cs_fail" ELSE "cs_ok"]
  /\ UNCHANGED <<results, failed, calls, vres, fdata, reason>>
  /\ wUnch(w)

\* failed.append(ticker)
AppendFailed(w) ==
  /\ w_pc[w] = "cs_fail"
  /\ failed' = Append(failed, tickers[w])
  /\ w_pc' = [w_pc EXCEPT ![w] = "rel_fail"]
  /\ UNCHANGED <<lock, results, calls, vres, fdata, reason>>
  /\ wUnch(w)

\* results[ticker] = financial_data
StoreResult(w) ==
  /\ w_pc[w] = "cs_ok"
  /\ results' = dict_set(results, tickers[w], fdata[w])
  /\ reason' = [reason EXCEPT ![w] = "SUCCEEDED"]
  /\ w_pc' = [w_pc EXCEPT ![w] = "rel_ok"]
  /\ UNCHANGED <<lock, failed, calls, vres, fdata>>
  /\ wUnch(w)

\* the with block closed only after print_table
Release_AfterPrint(w) ==
  /\ w_pc[w] \in {"rel_fail", "rel_ok"}
  /\ lock' = IF w_pc[w] = "rel_fail" THEN Free ELSE lock
  /\ w_pc' = [w_pc EXCEPT ![w] = IF @ = "rel_fail" THEN "done" ELSE "print"]
  /\ UNCHANGED <<results, failed, calls, vres, fdata, reason>>
  /\ wUnch(w)

\* lock.acquire() with no release
Release_KeepLock(w) ==
  /\ w_pc[w] \in {"rel_fail", "rel_ok"}
  /\ w_pc' = [w_pc EXCEPT ![w] = IF @ = "rel_fail" THEN "done" ELSE "print"]
  /\ UNCHANGED <<lock, results, failed, calls, vres, fdata, reason>>
  /\ wUnch(w)

\* leaving the with block releases the lock
Release(w) ==
  /\ w_pc[w] \in {"rel_fail", "rel_ok"}
  /\ lock' = Free
  /\ w_pc' = [w_pc EXCEPT ![w] = IF @ = "rel_fail" THEN "done" ELSE "print"]
  /\ UNCHANGED <<results, failed, calls, vres, fdata, reason>>
  /\ wUnch(w)

\* print_table(financial_data, ticker); may raise, uncaught
PrintTable(w) ==
  /\ w_pc[w] = "print"
  /\ \E ok \in BOOLEAN :
       w_pc' = [w_pc EXCEPT ![w] = IF ok THEN "done" ELSE "crashed"]
  /\ UNCHANGED <<lock, results, failed, calls, vres, fdata, reason>>
  /\ wUnch(w)

\* ------------------------------------------------------------ main()
dUnchT == UNCHANGED <<lock, calls, vres, fdata, reason, splitVars, classVars,
                      fetchVars, laiVars>>
dUnch == dUnchT /\ UNCHANGED d_status

\* input(): a path ending in .csv that is not a file -> return
InputMissingCsv ==
  /\ d_pc = "input"
  /\ d_pc' = "returned"
  /\ UNCHANGED <<tickers, started, joined, printed, exp_i, outdir, csv_files,
                 results, failed, w_pc>>
  /\ d_status' = "0"
  /\ dUnchT

\* input(): a CSV file (any number of rows) or a single ticker
InputTickers ==
  /\ d_pc = "input"
  /\ \E ts \in TickerLists :
       /\ tickers' = ts
       /\ d_pc' = "launch"
  /\ UNCHANGED <<started, joined, printed, exp_i, outdir, csv_files,
                 results, failed, w_pc>>
  /\ dUnch

\* for ticker in tickers: t = Thread(...); t.start(); threads.append(t)
Launch ==
  /\ d_pc = "launch"
  /\ started < Len(tickers)
  /\ started' = started + 1
  /\ w_pc' = [w_pc EXCEPT ![started + 1] = "classify"]
  /\ UNCHANGED <<d_pc, tickers, joined, printed, exp_i, outdir, csv_files,
                 results, failed>>
  /\ dUnch

LaunchDone ==
  /\ d_pc = "launch"
  /\ started = Len(tickers)
  /\ d_pc' = "join"
  /\ UNCHANGED <<tickers, started, joined, printed, exp_i, outdir, csv_files,
                 results, failed, w_pc>>
  /\ dUnch

\* Join that does not wait for the thread to end
Join_NoWait ==
  /\ d_pc = "join"
  /\ joined < Len(tickers)
  /\ joined' = joined + 1
  /\ UNCHANGED <<d_pc, tickers, started, printed, exp_i, outdir, csv_files,
                 results, failed, w_pc>>
  /\ dUnch

\* for t in threads: t.join()  - returns once thread t has ended
Join ==
  /\ d_pc = "join"
  /\ joined < Len(tickers)
  /\ w_pc[joined + 1] \in Terminated
  /\ joined' = joined + 1
  /\ UNCHANGED <<d_pc, tickers, started, printed, exp_i, outdir, csv_files,
                 results, failed, w_pc>>
  /\ dUnch

JoinDone ==
  /\ d_pc = "join"
  /\ joined = Len(tickers)
  /\ d_pc' = "summary"
  /\ UNCHANGED <<tickers, started, joined, printed, exp_i, outdir, csv_files,
                 results, failed, w_pc>>
  /\ dUnch

\* print("Summary:") ... len(results) ... len(failed) ...; if results: prompt
Summary ==
  /\ d_pc = "summary"
  /\ printed' = [t |-> "summary", nres |-> Len(results), nfailed |-> Len(failed)]
  /\ d_pc' = IF Len(results) > 0 THEN "ask_export" ELSE "done"
  /\ UNCHANGED <<tickers, started, joined, exp_i, outdir, csv_files,
                 results, failed, w_pc>>
  /\ d_status' = IF Len(results) > 0 THEN d_status ELSE "0"
  /\ dUnchT

\* if input().strip().upper() == 'Y'
AskExport ==
  /\ d_pc = "ask_export"
  /\ \E yes \in BOOLEAN :
       /\ d_pc' = IF yes THEN "export" ELSE "done"
       /\ d_status' = IF yes THEN d_status ELSE "0"
  /\ UNCHANGED <<tickers, started, joined, printed, exp_i, outdir, csv_files,
                 results, failed, w_pc>>
  /\ dUnchT

\* export_to_csv(ticker, financial_data): ensure_output_dir(); to_csv(path)
Export ==
  /\ d_pc = "export"
  /\ exp_i < Len(results)
  /\ outdir' = TRUE
  /\ csv_files' = csv_files \cup {results[exp_i + 1].k}
  /\ exp_i' = exp_i + 1
  /\ UNCHANGED <<d_pc, tickers, started, joined, printed, results, failed, w_pc>>
  /\ dUnch

ExportDone ==
  /\ d_pc = "export"
  /\ exp_i = Len(results)
  /\ d_pc' = "done"
  /\ UNCHANGED <<tickers, started, joined, printed, exp_i, outdir, csv_files,
                 results, failed, w_pc>>
  /\ d_status' = "0"
  /\ dUnchT

\* ------------------------------------------------------- split_csv.py
\* A character is written as itself when it is printable ASCII, as "\t",
\* "\n", "\f", "\r" for these four, and by its code point ("U+00A0")
\* otherwise.
\* int(s): surrounding whitespace stripped, optional sign, decimal digits of
\* any script with single underscores allowed between digits; anything else
\* raises ValueError.

\* the characters int() strips from both ends
Whitespace ==
  { "\t", "\n", "U+000B", "\f", "\r", " ", "U+0085", "U+00A0", "U+1680",
    "U+2000", "U+2001", "U+2002", "U+2003", "U+2004", "U+2005", "U+2006",
    "U+2007", "U+2008", "U+2009", "U+200A", "U+2028", "U+2029", "U+202F",
    "U+205F", "U+3000" }

\* the decimal digits (Unicode category Nd, Unicode 14) by value:
\* DecimalDigits[v + 1] holds the digits of value v
DecimalDigits ==
  << { "0", "U+0660", "U+06F0", "U+07C0", "U+0966", "U+09E6", "U+0A66",
       "U+0AE6", "U+0B66", "U+0BE6", "U+0C66", "U+0CE6", "U+0D66", "U+0DE6",
       "U+0E50", "U+0ED0", "U+0F20", "U+1040", "U+1090", "U+17E0", "U+1810",
       "U+1946", "U+19D0", "U+1A80", "U+1A90", "U+1B50", "U+1BB0", "U+1C40",
       "U+1C50", "U+A620", "U+A8D0", "U+A900", "U+A9D0", "U+A9F0", "U+AA50",
       "U+ABF0", "U+FF10", "U+104A0", "U+10D30", "U+11066", "U+110F0",
       "U+11136", "U+111D0", "U+112F0", "U+11450", "U+114D0", "U+11650",
       "U+116C0", "U+11730", "U+118E0", "U+11950", "U+11C50", "U+11D50",
       "U+11DA0", "U+16A60", "U+16AC0", "U+16B50", "U+1D7CE", "U+1D7D8",
       "U+1D7E2", "U+1D7EC", "U+1D7F6", "U+1E140", "U+1E2F0", "U+1E950",
       "U+1FBF0" },
     { "1", "U+0661", "U+06F1", "U+07C1", "U+0967", "U+09E7", "U+0A67",
       "U+0AE7", "U+0B67", "U+0BE7", "U+0C67", "U+0CE7", "U+0D67", "U+0DE7",
       "U+0E51", "U+0ED1", "U+0F21", "U+1041", "U+1091", "U+17E1", "U+1811",
       "U+1947", "U+19D1", "U+1A81", "U+1A91", "U+1B51", "U+1BB1", "U+1C41",
       "U+1C51", "U+A621", "U+A8D1", "U+A901", "U+A9D1", "U+A9F1", "U+AA51",
       "U+ABF1", "U+FF11", "U+104A1", "U+10D31", "U+11067", "U+110F1",
       "U+11137", "U+111D1", "U+112F1", "U+11451", "U+114D1", "U+11651",
       "U+116C1", "U+11731", "U+118E1", "U+11951", "U+11C51", "U+11D51",
       "U+11DA1", "U+16A61", "U+16AC1", "U+16B51", "U+1D7CF", "U+1D7D9",
       "U+1D7E3", "U+1D7ED", "U+1D7F7", "U+1E141", "U+1E2F1", "U+1E951",
       "U+1FBF1" },
     { "2", "U+0662", "U+06F2", "U+07C2", "U+0968", "U+09E8", "U+0A68",
       "U+0AE8", "U+0B68", "U+0BE8", "U+0C68", "U+0CE8", "U+0D68", "U+0DE8",
       "U+0E52", "U+0ED2", "U+0F22", "U+1042", "U+1092", "U+17E2", "U+1812",
       "U+1948", "U+19D2", "U+1A82", "U+1A92", "U+1B52", "U+1BB2", "U+1C42",
       "U+1C52", "U+A622", "U+A8D2", "U+A902", "U+A9D2", "U+A9F2", "U+AA52",
       "U+ABF2", "U+FF12", "U+104A2", "U+10D32", "U+11068", "U+110F2",
       "U+11138", "U+111D2", "U+112F2", "U+11452", "U+114D2", "U+11652",
       "U+116C2", "U+11732", "U+118E2", "U+11952", "U+11C52", "U+11D52",
       "U+11DA2", "U+16A62", "U+16AC2", "U+16B52", "U+1D7D0", "U+1D7DA",
       "U+1D7E4", "U+1D7EE", "U+1D7F8", "U+1E142", "U+1E2F2", "U+1E952",
       "U+1FBF2" },
     { "3", "U+0663", "U+06F3", "U+07C3", "U+0969", "U+09E9", "U+0A69",
       "U+0AE9", "U+0B69", "U+0BE9", "U+0C69", "U+0CE9", "U+0D69", "U+0DE9",
       "U+0E53", "U+0ED3", "U+0F23", "U+1043", "U+1093", "U+17E3", "U+1813",
       "U+1949", "U+19D3", "U+1A83", "U+1A93", "U+1B53", "U+1BB3", "U+1C43",
       "U+1C53", "U+A623", "U+A8D3", "U+A903", "U+A9D3", "U+A9F3", "U+AA53",
       "U+ABF3", "U+FF13", "U+104A3", "U+10D33", "U+11069", "U+110F3",
       "U+11139", "U+111D3", "U+112F3", "U+11453", "U+114D3", "U+11653",
       "U+116C3", "U+11733", "U+118E3", "U+11953", "U+11C53", "U+11D53",
       "U+11DA3", "U+16A63", "U+16AC3", "U+16B53", "U+1D7D1", "U+1D7DB",
       "U+1D7E5", "U+1D7EF", "U+1D7F9", "U+1E143", "U+1E2F3", "U+1E953",
       "U+1FBF3" },
     { "4", "U+0664", "U+06F4", "U+07C4", "U+096A", "U+09EA", "U+0A6A",
       "U+0AEA", "U+0B6A", "U+0BEA", "U+0C6A", "U+0CEA", "U+0D6A", "U+0DEA",
       "U+0E54", "U+0ED4", "U+0F24", "U+1044", "U+1094", "U+17E4", "U+1814",
       "U+194A", "U+19D4", "U+1A84", "U+1A94", "U+1B54", "U+1BB4", "U+1C44",
       "U+1C54", "U+A624", "U+A8D4", "U+A904", "U+A9D4", "U+A9F4", "U+AA54",
       "U+ABF4", "U+FF14", "U+104A4", "U+10D34", "U+1106A", "U+110F4",
       "U+1113A", "U+111D4", "U+112F4", "U+11454", "U+114D4", "U+11654",
       "U+116C4", "U+11734", "U+118E4", "U+11954", "U+11C54", "U+11D54",
       "U+11DA4", "U+16A64", "U+16AC4", "U+16B54", "U+1D7D2", "U+1D7DC",
       "U+1D7E6", "U+1D7F0", "U+1D7FA", "U+1E144", "U+1E2F4", "U+1E954",
       "U+1FBF4" },
     { "5", "U+0665", "U+06F5", "U+07C5", "U+096B", "U+09EB", "U+0A6B",
       "U+0AEB", "U+0B6B", "U+0BEB", "U+0C6B", "U+0CEB", "U+0D6B", "U+0DEB",
       "U+0E55", "U+0ED5", "U+0F25", "U+1045", "U+1095", "U+17E5", "U+1815",
       "U+194B", "U+19D5", "U+1A85", "U+1A95", "U+1B55", "U+1BB5", "U+1C45",
       "U+1C55", "U+A625", "U+A8D5", "U+A905", "U+A9D5", "U+A9F5", "U+AA55",
       "U+ABF5", "U+FF15", "U+104A5", "U+10D35", "U+1106B", "U+110F5",
       "U+1113B", "U+111D5", "U+112F5", "U+11455", "U+114D5", "U+11655",
       "U+116C5", "U+11735", "U+118E5", "U+11955", "U+11C55", "U+11D55",
       "U+11DA5", "U+16A65", "U+16AC5", "U+16B55", "U+1D7D3", "U+1D7DD",
       "U+1D7E7", "U+1D7F1", "U+1D7FB", "U+1E145", "U+1E2F5", "U+1E955",
       "U+1FBF5" },
     { "6", "U+0666", "U+06F6", "U+07C6", "U+096C", "U+09EC", "U+0A6C",
       "U+0AEC", "U+0B6C", "U+0BEC", "U+0C6C", "U+0CEC", "U+0D6C", "U+0DEC",
       "U+0E56", "U+0ED6", "U+0F26", "U+1046", "U+1096", "U+17E6", "U+1816",
       "U+194C", "U+19D6", "U+1A86", "U+1A96", "U+1B56", "U+1BB6", "U+1C46",
       "U+1C56", "U+A626", "U+A8D6", "U+A906", "U+A9D6", "U+A9F6", "U+AA56",
       "U+ABF6", "U+FF16", "U+104A6", "U+10D36", "U+1106C", "U+110F6",
       "U+1113C", "U+111D6", "U+112F6", "U+11456", "U+114D6", "U+11656",
       "U+116C6", "U+11736", "U+118E6", "U+11956", "U+11C56", "U+11D56",
       "U+11DA6", "U+16A66", "U+16AC6", "U+16B56", "U+1D7D4", "U+1D7DE",
       "U+1D7E8", "U+1D7F2", "U+1D7FC", "U+1E146", "U+1E2F6", "U+1E956",
       "U+1FBF6" },
     { "7", "U+0667", "U+06F7", "U+07C7", "U+096D", "U+09ED", "U+0A6D",
       "U+0AED", "U+0B6D", "U+0BED", "U+0C6D", "U+0CED", "U+0D6D", "U+0DED",
       "U+0E57", "U+0ED7", "U+0F27", "U+1047", "U+1097", "U+17E7", "U+1817",
       "U+194D", "U+19D7", "U+1A87", "U+1A97", "U+1B57", "U+1BB7", "U+1C47",
       "U+1C57", "U+A627", "U+A8D7", "U+A907", "U+A9D7", "U+A9F7", "U+AA57",
       "U+ABF7", "U+FF17", "U+104A7", "U+10D37", "U+1106D", "U+110F7",
       "U+1113D", "U+111D7", "U+112F7", "U+11457", "U+114D7", "U+11657",
       "U+116C7", "U+11737", "U+118E7", "U+11957", "U+11C57", "U+11D57",
       "U+11DA7", "U+16A67", "U+16AC7", "U+16B57", "U+1D7D5", "U+1D7DF",
       "U+1D7E9", "U+1D7F3", "U+1D7FD", "U+1E147", "U+1E2F7", "U+1E957",
       "U+1FBF7" },
     { "8", "U+0668", "U+06F8", "U+07C8", "U+096E", "U+09EE", "U+0A6E",
       "U+0AEE", "U+0B6E", "U+0BEE", "U+0C6E", "U+0CEE", "U+0D6E", "U+0DEE",
       "U+0E58", "U+0ED8", "U+0F28", "U+1048", "U+1098", "U+17E8", "U+1818",
       "U+194E", "U+19D8", "U+1A88", "U+1A98", "U+1B58", "U+1BB8", "U+1C48",
       "U+1C58", "U+A628", "U+A8D8", "U+A908", "U+A9D8", "U+A9F8", "U+AA58",
       "U+ABF8", "U+FF18", "U+104A8", "U+10D38", "U+1106E", "U+110F8",
       "U+1113E", "U+111D8", "U+112F8", "U+11458", "U+114D8", "U+11658",
       "U+116C8", "U+11738", "U+118E8", "U+11958", "U+11C58", "U+11D58",
       "U+11DA8", "U+16A68", "U+16AC8", "U+16B58", "U+1D7D6", "U+1D7E0",
       "U+1D7EA", "U+1D7F4", "U+1D7FE", "U+1E148", "U+1E2F8", "U+1E958",
       "U+1FBF8" },
     { "9", "U+0669", "U+06F9", "U+07C9", "U+096F", "U+09EF", "U+0A6F",
       "U+0AEF", "U+0B6F", "U+0BEF", "U+0C6F", "U+0CEF", "U+0D6F", "U+0DEF",
       "U+0E59", "U+0ED9", "U+0F29", "U+1049", "U+1099", "U+17E9", "U+1819",
       "U+194F", "U+19D9", "U+1A89", "U+1A99", "U+1B59", "U+1BB9", "U+1C49",
       "U+1C59", "U+A629", "U+A8D9", "U+A909", "U+A9D9", "U+A9F9", "U+AA59",
       "U+ABF9", "U+FF19", "U+104A9", "U+10D39", "U+1106F", "U+110F9",
       "U+1113F", "U+111D9", "U+112F9", "U+11459", "U+114D9", "U+11659",
       "U+116C9", "U+11739", "U+118E9", "U+11959", "U+11C59", "U+11D59",
       "U+11DA9", "U+16A69", "U+16AC9", "U+16B59", "U+1D7D7", "U+1D7E1",
       "U+1D7EB", "U+1D7F5", "U+1D7FF", "U+1E149", "U+1E2F9", "U+1E959",
       "U+1FBF9" } >>

Digits == UNION { DecimalDigits[i] : i \in 1..10 }
DigitVal(c) == (CHOOSE i \in 1..10 : c \in DecimalDigits[i]) - 1

RECURSIVE strip(_)
strip(s) ==
  IF Len(s) = 0 THEN s
  ELSE IF s[1] \in Whitespace THEN strip(Tail(s))
  ELSE IF s[Len(s)] \in Whitespace THEN strip(SubSeq(s, 1, Len(s) - 1))
  ELSE s

\* value of a run of digits and underscores
RECURSIVE digits_value(_, _)
digits_value(s, acc) ==
  IF Len(s) = 0 THEN acc
  ELSE IF s[1] = "_" THEN digits_value(Tail(s), acc)
  ELSE digits_value(Tail(s), 10 * acc + DigitVal(s[1]))

ValueError == [ok |-> FALSE, val |-> 0]

py_int(str) ==
  LET s == strip(str)
      signed == Len(s) > 0 /\ s[1] \in {"+", "-"}
      body == IF signed THEN Tail(s) ELSE s
      wellformed ==
        /\ Len(body) > 0
        /\ body[1] \in Digits
        /\ body[Len(body)] \in Digits
        /\ \A i \in 1..Len(body) : body[i] \in Digits \cup {"_"}
        /\ \A i \in 1..(Len(body) - 1) : ~(body[i] = "_" /\ body[i + 1] = "_")
  IN  IF ~wellformed
        THEN ValueError
        ELSE [ok |-> TRUE,
              val |-> IF signed /\ s[1] = "-"
                        THEN 0 - digits_value(body, 0)
                        ELSE digits_value(body, 0)]

\* list slicing tickers[start:end] for 0 <= start: the end is clamped
py_slice(q, start, end) ==
  LET e == IF end > Len(q) THEN Len(q) ELSE end
  IN  IF start >= e THEN << >> ELSE SubSeq(q, start + 1, e)

min(a, b) == IF a < b THEN a ELSE b

\* the two range checks of the prompt loop (True = re-prompt)
chunk_size_rejected_NoUpper(tpf, total_tickers) ==
  tpf <= 0

chunk_size_rejected(tpf, total_tickers) ==
  tpf <= 0 \/ tpf > total_tickers

\* num_files = (total_tickers + tickers_per_file - 1) // tickers_per_file
num_files_Floor(total_tickers, tpf) ==
  total_tickers \div tpf

num_files(total_tickers, tpf) ==
  (total_tickers + tpf - 1) \div tpf

\* chunk i (0-based) of the split loop
chunk_of(tks, i, tpf) ==
  LET start_idx == i * tpf
      end_idx == min((i + 1) * tpf, Len(tks))
  IN  py_slice(tks, start_idx, end_idx)

MaxReprompts == 2

\* First-column values of the input file: n distinct tickers, n up to
\* MaxSplitLen, and two lists with repeated values.
SplitTickerNames ==
  <<"T01", "T02", "T03", "T04", "T05", "T06", "T07", "T08", "T09", "T10",
    "T11", "T12", "T13", "T14", "T15", "T16">>

SplitLists ==
  { SubSeq(SplitTickerNames, 1, n) : n \in 0..MaxSplitLen }
  \cup { <<"T01", "T01">>, <<"T02", "T01", "T02">> }

PromptStrings ==
  { << >>, <<"x">>, <<"0">>, <<"-","1">>, <<" ","2">>, <<"+","1">>, <<"2",".","0">>,
    <<"\t","2","U+00A0">>, <<"U+001C","2">>, <<"1","_","0">>, <<"_","1">>,
    <<"1","_","_","0">>, <<"U+FF15">>, <<"1","U+0663">> }
  \cup { <<c>> : c \in {"1","2","3","4","5","6","7","8","9"} }
  \cup { <<"1", c>> : c \in {"0", "1", "2", "3"} }

NoFiles == [k \in {} |-> << >>]

SplitInit ==
  /\ sp_pc = "read"
  /\ sp_tickers = << >>
  /\ tickers_per_file = 0
  /\ sp_i = 0
  /\ sp_files = NoFiles
  /\ sp_rejected = 0
  /\ sp_status = "running"

spUnch == UNCHANGED <<batchVars, classVars, fetchVars, laiVars>>

\* pd.read_csv raises (FileNotFoundError or any other): message, exit()
SplitReadError ==
  /\ sp_pc = "read"
  /\ sp_pc' = "exit"
  /\ UNCHANGED <<sp_tickers, tickers_per_file, sp_i, sp_files, sp_rejected>>
  /\ sp_status' = "0"
  /\ spUnch

\* tickers = df.iloc[:, 0].tolist(); exit() when there are none
SplitRead ==
  /\ sp_pc = "read"
  /\ \E ts \in SplitLists :
       /\ sp_tickers' = ts
       /\ sp_pc' = IF Len(ts) = 0 THEN "exit" ELSE "prompt"
       /\ sp_status' = IF Len(ts) = 0 THEN "0" ELSE sp_status
  /\ UNCHANGED <<tickers_per_file, sp_i, sp_files, sp_rejected>>
  /\ spUnch

\* one iteration of the while True prompt loop
Prompt ==
  /\ sp_pc = "prompt"
  /\ \E str \in PromptStrings :
       LET p == py_int(str) IN
       IF ~p.ok
         THEN /\ sp_rejected < MaxReprompts
              /\ sp_rejected' = sp_rejected + 1
              /\ UNCHANGED <<sp_pc, tickers_per_file>>
         ELSE /\ tickers_per_file' = p.val
              /\ IF chunk_size_rejected(p.val, Len(sp_tickers))
                   THEN /\ sp_rejected < MaxReprompts
                        /\ sp_rejected' = sp_rejected + 1
                        /\ UNCHANGED sp_pc
                   ELSE /\ sp_pc' = "write"
                        /\ UNCHANGED sp_rejected
  /\ UNCHANGED <<sp_tickers, sp_i, sp_files, sp_status>>
  /\ spUnch

\* one iteration of for i in range(num_files): new_df.to_csv(..._part{i+1}.csv)
WriteChunk ==
  /\ sp_pc = "write"
  /\ sp_i < num_files(Len(sp_tickers), tickers_per_file)
  /\ LET chunk == chunk_of(sp_tickers, sp_i, tickers_per_file) IN
       sp_files' = [k \in DOMAIN sp_files \cup {sp_i + 1} |->
                      IF k = sp_i + 1 THEN chunk ELSE sp_files[k]]
  /\ sp_i' = sp_i + 1
  /\ UNCHANGED <<sp_pc, sp_tickers, tickers_per_file, sp_rejected, sp_status>>
  /\ spUnch

\* the loop ends: print("Completed! ...")
SplitDone ==
  /\ sp_pc = "write"
  /\ sp_i >= num_files(Len(sp_tickers), tickers_per_file)
  /\ sp_pc' = "done"
  /\ UNCHANGED <<sp_tickers, tickers_per_file, sp_i, sp_files, sp_rejected>>
  /\ sp_status' = "0"
  /\ spUnch

\* ------------------------------------------- is_supported_ticker, alone
TickerAlphabet == {"A", ".", "H", "K", "@"}
TickerStrings == SeqsUpTo(TickerAlphabet, MaxTickerLen)

ClassIdle ==
  /\ cl_pc = "idle"
  /\ cl_ticker = << >>
  /\ cl_result = FALSE

ClassInit ==
  /\ cl_pc = "call"
  /\ cl_ticker \in TickerStrings
  /\ cl_result = FALSE

ClassifyCall ==
  /\ cl_pc = "call"
  /\ cl_result' = is_supported_ticker(cl_ticker)
  /\ cl_pc' = "returned"
  /\ UNCHANGED <<cl_ticker, batchVars, splitVars, fetchVars, laiVars>>

\* ------------------------------------------ fetch_financial_data, alone
\* Provider responses for one call: any provider call raising or not, the
\* balance-sheet rows present or not (empty row: a frame without columns),
\* numpy or Python cells, the quote-info share count, an empty or non-empty
\* price history.
Row(present, vals) == [present |-> present, vals |-> vals]

EquityRows ==
  { Row(FALSE, << >>), Row(TRUE, << >>), Row(TRUE, <<Num(1000)>>),
    Row(TRUE, <<Num(0)>>), Row(TRUE, <<NaN>>), Row(TRUE, <<PyNum(1000)>>),
    Row(TRUE, <<Frac(2001, 2)>>), Row(TRUE, <<Frac(7, 10)>>) }

ShareIssuedRows ==
  { Row(FALSE, << >>), Row(TRUE, <<Num(100)>>), Row(TRUE, <<Num(3)>>),
    Row(TRUE, <<Num(20)>>), Row(TRUE, <<Num(0)>>), Row(TRUE, <<PyNum(0)>>) }

InfoDicts ==
  { EmptyDict,
    [beta |-> PyNum(1), sharesOutstanding |-> PyNum(100)],
    [beta |-> PyNum(1), sharesOutstanding |-> PyNum(0)] }

Histories == { << >>, <<Num(148), Num(149)>> }

balance_sheet_of(eq, si) ==
  [x \in (IF eq.present THEN {"Stockholders Equity"} ELSE {})
         \cup (IF si.present THEN {"Share Issued"} ELSE {}) |->
     IF x = "Stockholders Equity" THEN eq.vals ELSE si.vals]

FetchResponses ==
  { [raises |-> ra, info |-> inf, financials |-> FullResponse.financials,
     balance_sheet |-> balance_sheet_of(eq, si),
     cashflow |-> FullResponse.cashflow, hist |-> h] :
      ra \in BOOLEAN, inf \in InfoDicts, eq \in EquityRows,
      si \in ShareIssuedRows, h \in Histories }

FetchIdle ==
  /\ fe_pc = "idle"
  /\ fe_variant = "batch"
  /\ fe_resp = FullResponse
  /\ fe_logOk = TRUE
  /\ fe_out = None

FetchInit ==
  /\ fe_pc = "call"
  /\ fe_variant \in {"batch", "lai"}
  /\ fe_resp \in FetchResponses
  /\ fe_logOk \in BOOLEAN
  /\ fe_out = None

FetchCall ==
  /\ fe_pc = "call"
  /\ fe_out' = IF fe_variant = "batch"
                 THEN fetch_financial_data(fe_resp, fe_logOk)
                 ELSE fetch_financial_data_lai(fe_resp, fe_logOk)
  /\ fe_pc' = "returned"
  /\ UNCHANGED <<fe_variant, fe_resp, fe_logOk, batchVars, splitVars, classVars,
                 laiVars>>

\* ------------------------------------------- yf_pull_iv_data_lai.main()
LaiIdle ==
  /\ la_pc = "idle"
  /\ la_argv = << >>
  /\ la_fd = None
  /\ la_outdir = FALSE
  /\ la_write = "none"
  /\ la_status = "running"

LaiInit ==
  /\ la_pc = "args"
  /\ la_argv \in { << >>, <<AAPL>>, <<HK0700>> }
  /\ la_fd = None
  /\ la_outdir \in BOOLEAN
  /\ la_write = "none"
  /\ la_status = "running"

laUnch == UNCHANGED <<batchVars, splitVars, classVars, fetchVars>>

\* if len(sys.argv) < 2: print usage; sys.exit(1)
LaiArgs ==
  /\ la_pc = "args"
  /\ IF Len(la_argv) < 1
       THEN la_pc' = "exited" /\ la_status' = "1"
       ELSE la_pc' = "fetch" /\ UNCHANGED la_status
  /\ UNCHANGED <<la_argv, la_fd, la_outdir, la_write>>
  /\ laUnch

\* financial_data = fetch_financial_data(ticker); the else branch prints
\* "Failed to fetch financial data." and main returns; an exception leaving
\* fetch_financial_data ends the script with a traceback.
LaiFetch ==
  /\ la_pc = "fetch"
  /\ \E r \in FetchResponses, logOk \in BOOLEAN :
     \E fd \in {fetch_financial_data_lai(r, logOk)} :
       IF fd = Raise
         THEN la_pc' = "exited" /\ la_status' = "1" /\ UNCHANGED la_fd
         ELSE IF fd = None
           THEN la_pc' = "exited" /\ la_status' = "0" /\ la_fd' = fd
           ELSE la_pc' = "print" /\ UNCHANGED la_status /\ la_fd' = fd
  /\ UNCHANGED <<la_argv, la_outdir, la_write>>
  /\ laUnch

\* print_table(financial_data, ticker); may raise, uncaught
LaiPrint ==
  /\ la_pc = "print"
  /\ \E ok \in BOOLEAN :
       IF ok THEN la_pc' = "export" /\ UNCHANGED la_status
             ELSE la_pc' = "exited" /\ la_status' = "1"
  /\ UNCHANGED <<la_argv, la_fd, la_outdir, la_write>>
  /\ laUnch

\* export_to_csv of the lai script: financial_data.to_csv(file_path) with no
\* ensure_output_dir() before it; to_csv raises OSError when the directory of
\* the path does not exist, and nothing catches it.
LaiExport ==
  /\ la_pc = "export"
  /\ IF la_outdir
       THEN la_write' = "written" /\ la_status' = "0"
       ELSE la_write' = "nodir" /\ la_status' = "1"
  /\ la_pc' = "exited"
  /\ UNCHANGED <<la_argv, la_fd, la_outdir>>
  /\ laUnch

\* ------------------------------------------------------- specifications
Init == BatchInit /\ SplitInit /\ ClassIdle /\ FetchIdle /\ LaiIdle

Next ==
  \/ InputMissingCsv \/ InputTickers \/ Launch \/ LaunchDone
  \/ Join \/ JoinDone \/ Summary \/ AskExport \/ Export \/ ExportDone
  \/ \E w \in Workers : Classify(w)
  \/ \E w \in Workers : Validate(w)
  \/ \E w \in Workers : Fetch(w)
  \/ \E w \in Workers : Announce(w)
  \/ \E w \in Workers : Acquire(w)
  \/ \E w \in Workers : AppendFailed(w)
  \/ \E w \in Workers : StoreResult(w)
  \/ \E w \in Workers : Release(w)
  \/ \E w \in Workers : PrintTable(w)

Spec == Init /\ [][Next]_vars

SplitNext == SplitReadError \/ SplitRead \/ Prompt \/ WriteChunk \/ SplitDone

SpecSplit == Init /\ [][SplitNext]_vars

ClassSpecInit == BatchInit /\ SplitInit /\ ClassInit /\ FetchIdle /\ LaiIdle

ClassNext == ClassifyCall

SpecClassify == ClassSpecInit /\ [][ClassNext]_vars

FetchSpecInit == BatchInit /\ SplitInit /\ ClassIdle /\ FetchInit /\ LaiIdle

FetchNext == FetchCall

SpecFetch == FetchSpecInit /\ [][FetchNext]_vars

LaiSpecInit == BatchInit /\ SplitInit /\ ClassIdle /\ FetchIdle /\ LaiInit

LaiNext == LaiArgs \/ LaiFetch \/ LaiPrint \/ LaiExport

SpecLai == LaiSpecInit /\ [][LaiNext]_vars

\* The batch pipeline with the scheduling the interpreter gives: while the
\* main thread or some started thread can take a step of the program (every
\* provider call, log write and print returns or raises), one of them does.
\* Nothing is assumed about the user answering the export prompt.
Progress ==
  \/ Launch \/ LaunchDone \/ Join \/ JoinDone \/ Summary
  \/ \E w \in Workers :
       \/ Classify(w) \/ Validate(w) \/ Fetch(w) \/ Announce(w) \/ Acquire(w)
       \/ AppendFailed(w) \/ StoreResult(w) \/ Release(w) \/ PrintTable(w)

Fairness == WF_vars(Progress)

\* OUTPUT_DIR is read by the export only, after the summary: the runs up to
\* the summary are the same with and without it, and are taken with it.
FairInit == Init /\ outdir

SpecFair == FairInit /\ [][Next]_vars /\ Fairness

\* =================================================================== claims
PostJoin == {"summary", "ask_export", "export", "done"}
Launched == 1..Len(tickers)

\* C1: after main() has joined all workers, every input ticker is in exactly
\* one of {keys of results, failed}: never in both, never in neither.
C1_ExactlyOneOutcome ==
  d_pc \in PostJoin =>
    \A i \in Launched :
      (tickers[i] \in keys(results)) # (tickers[i] \in elems(failed))

\* C2: when exactly K of the N workers had validate_ticker return false and
\* all the others extracted a summary, then after the join len(failed) = K
\* and len(results) = N - K.
C2_Counts ==
  LET N == Len(tickers)
      K == Cardinality({w \in Launched : vres[w].out = "False"})
  IN  ( /\ d_pc \in PostJoin
        /\ \A w \in Launched :
             \/ vres[w].out = "False"
             \/ vres[w].out = "True" /\ "fetch" \in elems(calls[w])
                                     /\ fdata[w] # None )
      => (Len(failed) = K /\ Len(results) = N - K)

\* C3: the driver reads results and failed (summary, export) only once every
\* launched thread has ended, and from the driver's first read on no worker
\* changes results or failed.
C3_NoWriteAfterRead ==
  d_pc \in PostJoin => (results' = results /\ failed' = failed)

C3_ReadsAfterJoin ==
  /\ [](d_pc \in PostJoin => \A w \in 1..started : w_pc[w] \in Terminated)
  /\ [](d_pc \in PostJoin => started = Len(tickers))
  /\ [][C3_NoWriteAfterRead]_vars

C3_Witness ==
  /\ d_pc = "done"
  /\ printed # None
  /\ Len(tickers) >= 2
  /\ Len(results) >= 1
  /\ Len(failed) >= 1

\* C4: every error raised while a worker processes its ticker is swallowed at
\* the worker boundary and becomes an entry of failed: a worker that has ended
\* ended normally, and unless its summary is stored its ticker is in failed.
C4_ErrorsBecomeFailures ==
  \A w \in Launched :
    w_pc[w] \in Terminated =>
      /\ w_pc[w] = "done"
      /\ (tickers[w] \in keys(results)) \/ (tickers[w] \in elems(failed))

\* C5: the stages run in the order classify, validate, extract and the first
\* failing one ends the worker: no provider call for a ticker the classifier
\* rejects, no fetch after validate_ticker returned false, and a worker stores
\* into results only after all three stages succeeded with a non-empty summary.
IsPrefix(p, q) == Len(p) <= Len(q) /\ SubSeq(q, 1, Len(p)) = p

C5_StageOrder ==
  \A w \in Workers :
    /\ IsPrefix(calls[w], <<"classify", "validate", "fetch">>)
    /\ (w_pc[w] # "idle" /\ ~is_supported_ticker(tickers[w]))
         => calls[w] \in { << >>, <<"classify">> }
    /\ vres[w].out # "True" => "fetch" \notin elems(calls[w])
    /\ w_pc[w] \in {"cs_ok", "rel_ok", "print"} \/ reason[w] = "SUCCEEDED"
         => /\ calls[w] = <<"classify", "validate", "fetch">>
            /\ is_supported_ticker(tickers[w])
            /\ vres[w].out = "True"
            /\ fdata[w] # None
            /\ ~empty(fdata[w])

C5_Witness ==
  \E w1, w2 \in Launched :
    /\ w_pc[w1] = "done" /\ reason[w1] = "INVALID"
    /\ calls[w1] = <<"classify", "validate">>
    /\ w_pc[w2] = "done" /\ reason[w2] = "SUCCEEDED"
    /\ tickers[w2] \in keys(results)

\* C6: results and failed change only in a step of the worker that holds the
\* global lock, and at most one worker is inside a critical section.
InCS(w) == w_pc[w] \in {"cs_fail", "rel_fail", "cs_ok", "rel_ok"}

C6_MutationByHolder ==
  (results' # results \/ failed' # failed)
    => (lock # Free /\ InCS(lock) /\ lock' = lock /\ w_pc'[lock] # w_pc[lock])

C6_MutationsUnderLock ==
  /\ [](Cardinality({w \in Workers : InCS(w)}) <= 1)
  /\ [](\A w \in Workers : InCS(w) => lock = w)
  /\ [][C6_MutationByHolder]_vars

C6_Witness ==
  \E w1, w2 \in Launched :
    /\ w1 # w2
    /\ lock = w1 /\ w_pc[w1] = "rel_ok" /\ tickers[w1] \in keys(results)
    /\ w_pc[w2] = "acq_fail"

\* C7: for n >= 1 tickers and an accepted chunk size c, the finished split has
\* written exactly ceil(n/c) files part1..partK, all but the last of c tickers,
\* the last of 1..c, and their concatenation in part order is the input list.
RECURSIVE ConcatParts(_, _)
ConcatParts(files, k) ==
  IF k = 0 THEN << >> ELSE ConcatParts(files, k - 1) \o files[k]

CeilDiv(n, c) == CHOOSE K \in 0..n : K * c >= n /\ (K - 1) * c < n

C7_SplitPartition ==
  sp_pc = "done" =>
    LET n == Len(sp_tickers)
        c == tickers_per_file
        K == CeilDiv(n, c)
    IN  /\ n >= 1 /\ 1 <= c /\ c <= n
        /\ DOMAIN sp_files = 1..K
        /\ \A k \in 1..(K - 1) : Len(sp_files[k]) = c
        /\ 1 <= Len(sp_files[K]) /\ Len(sp_files[K]) <= c
        /\ ConcatParts(sp_files, K) = sp_tickers

C7_Witness ==
  /\ sp_pc = "done"
  /\ Len(sp_tickers) = 10
  /\ tickers_per_file = 3
  /\ [k \in 1..4 |-> Len(sp_files[k])] = <<3, 3, 3, 1>>

\* C8: a chunk size that is 0, negative or above the ticker count is rejected:
\* the prompt is repeated, no file is written and the ticker list is untouched;
\* files exist only once a chunk size in [1, len(tickers)] was entered.
C8_RejectedStep ==
  (sp_pc = "prompt" /\ (tickers_per_file' <= 0
                          \/ tickers_per_file' > Len(sp_tickers)))
    => (sp_pc' = "prompt" /\ sp_files' = sp_files /\ sp_tickers' = sp_tickers)

C8_RejectsOutOfRange ==
  /\ [][C8_RejectedStep]_vars
  /\ [](sp_pc \in {"read", "prompt", "exit"} => sp_files = NoFiles)
  /\ []((sp_files # NoFiles \/ sp_pc \in {"write", "done"})
          => (1 <= tickers_per_file /\ tickers_per_file <= Len(sp_tickers)))

C8_Witness ==
  /\ sp_pc = "done"
  /\ sp_rejected >= 2
  /\ sp_files # NoFiles

\* C9: is_supported_ticker is true for every ticker string, suffixed or
\* malformed, because the allow-list holds the empty suffix.
C9_AlwaysSupported ==
  cl_pc = "returned" =>
    /\ cl_result = TRUE
    /\ cl_result = (\E i \in 1..Len(SUPPORTED_SUFFIXES) :
                      \E j \in 1..(Len(cl_ticker) + 1) :
                        SubSeq(cl_ticker, j, Len(cl_ticker)) = SUPPORTED_SUFFIXES[i])

C9_Witness ==
  /\ cl_pc = "returned"
  /\ cl_result = TRUE
  /\ cl_ticker = <<"A", "@", "@">>

\* C10: validate_ticker is fail-closed: false when the lookup raises or the
\* regularMarketPrice is absent or null, true only for a lookup that succeeds
\* with a price, and no exception leaves the function.
C10_FailClosed ==
  \A w \in Workers :
    vres[w].out # "none" =>
      /\ vres[w].out \in {"True", "False"}
      /\ vres[w].lookup \in {"raises", "absent", "null"} => vres[w].out = "False"
      /\ vres[w].out = "True" => vres[w].lookup = "price"

\* ---------------------------------------------------------- C11 .. C19
IsFrame(x) == x.t = "frame"

\* the value of the row of a frame with the given metric name
RowValue(df, name) ==
  df.rows[CHOOSE i \in 1..Len(df.rows) : df.rows[i][1] = name][2]

\* the rows the called variant computes, before rounding
fe_rows == IF fe_variant = "batch" THEN summary_data(fe_resp)
                                   ELSE summary_data_lai(fe_resp)

\* some step of the extraction raises: a provider call, a row lookup, the
\* BVPS division or the access to the last close
fe_step_raises ==
  \/ fe_resp.raises
  \/ \E i \in 1..Len(fe_rows) : fe_rows[i][2] = Raise
  \/ last_close(fe_resp.hist) = Raise

\* C11: fetch_financial_data is all-or-nothing: when any step of the
\* extraction raises the function returns None, and a summary it returns is
\* never partial.
C11_AllOrNothing ==
  fe_pc = "returned" =>
    /\ fe_step_raises => fe_out = None
    /\ IsFrame(fe_out) => (~fe_step_raises /\ Len(fe_out.rows) = Len(fe_rows))

\* a metric without a value: None, or nan in a float64 Value column
Absent(v) == v \in {None, NaN}

\* C12 (as claimed): in every summary BVPS is exactly the reported Total
\* Equity divided by the reported Shares Outstanding when both are present,
\* and absent when either is absent.
C12_ExactQuotient ==
  (fe_pc = "returned" /\ IsFrame(fe_out)) =>
    LET E == RowValue(fe_out, "Total Equity")
        S == RowValue(fe_out, "Shares Outstanding")
        B == RowValue(fe_out, "BVPS")
    IN  IF Absent(E) \/ Absent(S)
          THEN Absent(B)
          ELSE (IsFinite(E) /\ IsFinite(S) /\ S.n # 0) =>
                 /\ IsFinite(B)
                 /\ B.n * S.n * E.d = E.n * B.d * S.d

\* C12 (amended): BVPS is the quotient of the unrounded Total Equity and of
\* the unrounded share count the summary reports (Share Issued row, else
\* sharesOutstanding of the quote info), rounded to 2 decimals; inf, -inf or
\* nan when the share count is zero, nan when an operand is nan; without a
\* value (nan in the frame, like every absent metric) when either operand is
\* absent.
Abs(x) == IF x < 0 THEN 0 - x ELSE x

C12_RoundedQuotient ==
  (fe_pc = "returned" /\ IsFrame(fe_out)) =>
    LET bs == fe_resp.balance_sheet
        e == IF "Stockholders Equity" \in DOMAIN bs
               THEN bs["Stockholders Equity"][1] ELSE None
        s == IF "Share Issued" \in DOMAIN bs
               THEN bs["Share Issued"][1]
               ELSE get(fe_resp.info, "sharesOutstanding")
        E == RowValue(fe_out, "Total Equity")
        S == RowValue(fe_out, "Shares Outstanding")
        B == RowValue(fe_out, "BVPS")
    IN  /\ e = None => Absent(E)
        /\ s = None => Absent(S)
        /\ (e = None \/ s = None) => Absent(B)
        /\ (e # None /\ IsFinite(e)) => (IsFinite(E) /\ E = round2(e))
        /\ (s # None /\ IsFinite(s)) => (IsFinite(S) /\ S = round2(s))
        /\ (e # None /\ s # None /\ IsFinite(e) /\ IsFinite(s) /\ s.n # 0) =>
             /\ IsFinite(B) /\ B.d = 100
             /\ 2 * Abs(100 * e.n * s.d - B.n * e.d * s.n) <= Abs(e.d * s.n)
        /\ (e # None /\ s # None /\ IsFinite(e) /\ IsFinite(s) /\ s.n = 0) =>
             B \in {Inf, NegInf, NaN}
        /\ (e = NaN /\ s # None) => B = NaN

C12_Witness ==
  /\ fe_pc = "returned"
  /\ fe_variant = "batch"
  /\ IsFrame(fe_out)
  /\ RowValue(fe_out, "Total Equity") = Frac(100050, 100)
  /\ RowValue(fe_out, "Shares Outstanding") = Frac(10000, 100)
  /\ RowValue(fe_out, "BVPS") = Frac(1001, 100)

\* C13: in both entry points export_to_csv makes sure the output directory
\* exists before it writes: no CSV write is attempted without the directory.
C13_DirBeforeWrite ==
  /\ la_write # "nodir"
  /\ la_write = "written" => la_outdir
  /\ csv_files # {} => outdir

\* C14: on an unrecoverable input error (file not found, no tickers, missing
\* argument) each entry point ends with a non-zero status, with no worker
\* launched and no file written; otherwise it ends normally.
C14_ExitStatus ==
  /\ sp_pc = "exit" => (sp_status \notin {"0", "running"} /\ sp_files = NoFiles)
  /\ sp_pc = "done" => sp_status = "0"
  /\ d_pc = "returned" => (d_status \notin {"0", "running"} /\ started = 0
                           /\ csv_files = {})
  /\ d_pc = "done" => d_status = "0"
  /\ (la_pc = "exited" /\ Len(la_argv) = 0) =>
       (la_status \notin {"0", "running"} /\ la_write = "none")

\* C15: every summary returned has exactly one row per metric of the fixed
\* set, in the fixed order: 15 rows in the batch variant, 16 with the last
\* close at the end in the single-ticker variant, whatever values are absent.
MetricNames ==
  <<"Beta", "Current Price", "Market Cap", "P/E Ratio", "Forward P/E",
    "Dividend Rate", "Dividend Yield", "ROE", "Free Cash Flow (FCF)",
    "Net Income", "Shares Outstanding", "EPS", "Total Debt", "Total Equity",
    "BVPS">>

C15_FixedRows ==
  (fe_pc = "returned" /\ IsFrame(fe_out)) =>
    LET names == [i \in 1..Len(fe_out.rows) |-> fe_out.rows[i][1]]
    IN  IF fe_variant = "batch"
          THEN Len(fe_out.rows) = 15 /\ names = MetricNames
          ELSE Len(fe_out.rows) = 16
               /\ names = MetricNames \o <<"Last 3 Years Close Price">>

C15_Witness ==
  /\ fe_pc = "returned"
  /\ IsFrame(fe_out)
  /\ fe_variant = "batch"
  /\ Absent(RowValue(fe_out, "Total Equity"))
  /\ Absent(RowValue(fe_out, "BVPS"))
  /\ Absent(RowValue(fe_out, "Beta"))

\* C16: the batch extraction depends on the four provider calls only (quote
\* info and the three statements): a batch call that gives no summary had one
\* of them, or a row lookup or the division, raise; the price history plays
\* no part in the outcome.
C16_HistoryIrrelevant ==
  (fe_pc = "returned" /\ fe_variant = "batch" /\ ~IsFrame(fe_out)) =>
    \/ fe_resp.raises
    \/ \E i \in 1..Len(summary_data(fe_resp)) : summary_data(fe_resp)[i][2] = Raise

\* C17: no worker holds the global lock while it is in a blocking operation:
\* a provider call (validation, extraction), a log append or table printing.
Blocking == {"classify", "validate", "fetch", "announce", "print"}

C17_NoLockWhileBlocking ==
  \A w \in Workers : w_pc[w] \in Blocking => lock # w

C17_Witness ==
  \E w1, w2 \in Launched :
    /\ w1 # w2
    /\ w_pc[w1] = "fetch"
    /\ lock = w2 /\ w_pc[w2] = "cs_fail"

\* C18: one worker is launched per entry of the ticker list; every worker
\* gives the lock back and ends, one whose provider calls, log writes and
\* prints all returned ends with a terminal outcome, so the join completes
\* and the run reaches the summary (no deadlock on the lock, no worker waits
\* forever).
C18_AtSummary ==
  printed # None =>
    /\ lock = Free
    /\ \A w \in Launched :
         /\ w_pc[w] \in Terminated
         /\ reason[w] # "CRASHED" =>
              /\ reason[w] \in {"REJECTED", "INVALID", "FETCH_FAILED", "EMPTY",
                                "SUCCEEDED"}
              /\ tickers[w] \in keys(results) \cup elems(failed)

C18_Terminates ==
  /\ [](d_pc \in PostJoin \cup {"join"} => started = Len(tickers))
  /\ [](\A w \in Workers : (w > started) = (w_pc[w] = "idle"))
  /\ [](C18_AtSummary)
  /\ (d_pc = "launch") ~> (printed # None)

C18_Witness ==
  /\ printed # None
  /\ Len(tickers) >= 2
  /\ \A w \in Launched : w_pc[w] = "done"
  /\ \E w \in Launched : tickers[w] \in keys(results)
  /\ \E w \in Launched : tickers[w] \in elems(failed)

\* C19: in the batch pipeline nothing reaches failed through the
\* unsupported-suffix branch or the empty-summary branch: every entry of
\* failed comes from a failed validation or a failed extraction.
C19_NoRejectedNoEmpty ==
  /\ \A w \in Workers : reason[w] \notin {"REJECTED", "EMPTY"}
  /\ \A w \in Workers :
       w_pc[w] \in {"acq_fail", "cs_fail", "rel_fail"}
         => reason[w] \in {"INVALID", "FETCH_FAILED"}
  /\ \A i \in 1..Len(failed) :
       \E w \in Launched :
         /\ tickers[w] = failed[i]
         /\ reason[w] \in {"INVALID", "FETCH_FAILED"}
         /\ \/ vres[w].out = "False"
            \/ vres[w].out = "True" /\ fdata[w] = None /\ "fetch" \in elems(calls[w])

C19_Witness ==
  \E w1, w2 \in Launched :
    /\ w_pc[w1] = "done" /\ reason[w1] = "INVALID"
    /\ w_pc[w2] = "done" /\ reason[w2] = "FETCH_FAILED"
    /\ Len(failed) = 2

====
